---- MODULE Spec2Model ----
(***************************************************************************)
(* A model of the bookmarks browser in src/bookmarks/app.js: the filter    *)
(* state, the URL query parameters, the rendered page (category pills,     *)
(* tag list, card grid, counters) and the event handlers that connect      *)
(* them.                                                                   *)
(*                                                                         *)
(* Strings are sequences of one-character strings, so that trim, split,    *)
(* toLowerCase, includes and localeCompare are computed as the code        *)
(* computes them.  The empty sequence stands for every falsy string value  *)
(* of the script (null, undefined, ''): the code only ever tests these     *)
(* values for truthiness (lines 32-36, 60-63, 87, 95, 106, 111, 193-194).  *)
(***************************************************************************)
EXTENDS Integers, Sequences, FiniteSets, TLC

VARIABLES
    pc,                 \* "loading" | "ready" | "failed" (loadBookmarks), "pure" | "shown"
    bookmarks,          \* let bookmarks = []
    selectedTags,       \* let selectedTags = new Set()
    searchQuery,        \* let searchQuery = ''
    selectedCategory,   \* let selectedCategory = null
    selectedSection,    \* let selectedSection = null
    inputValue,         \* document.getElementById('search-input').value
    url,                \* window.location.search, as the list of its name=value pairs
    dom,                \* the rendered page
    listeners,          \* how many times setupEventListeners has run
    pending,            \* debounceTimer holds a timeout that has not fired
    elapsed,            \* ms since that timeout was set (capped at DebounceMs)
    helpVisible,        \* #help-overlay has class 'visible'
    focus,              \* document.activeElement: "search" or "other"
    event,              \* the key, input or timer handler that is running, with its window.open calls
    errors              \* number of console.error calls

vars == <<pc, bookmarks, selectedTags, searchQuery, selectedCategory, selectedSection,
          inputValue, url, dom, listeners, pending, elapsed, helpVisible, focus,
          event, errors>>

---------------------------------------------------------------------------
(* Bounds *)

MaxBookmarks == 2

(* Program constants *)
DebounceMs == 150
BadgeLimit == 9

---------------------------------------------------------------------------
(* Strings *)

Null == <<>>

Truthy(s) == s # <<>>

Lower(c) == CASE c = "A" -> "a" [] c = "B" -> "b" [] c = "U" -> "u" [] OTHER -> c

ToLowerCase(s) == [i \in 1..Len(s) |-> Lower(s[i])]

IsSpace(c) == c = " "

RECURSIVE TrimStart(_)
TrimStart(s) == IF s # <<>> /\ IsSpace(Head(s)) THEN TrimStart(Tail(s)) ELSE s

RECURSIVE TrimEnd(_)
TrimEnd(s) ==
    IF s # <<>> /\ IsSpace(s[Len(s)]) THEN TrimEnd(SubSeq(s, 1, Len(s) - 1)) ELSE s

Trim(s) == TrimEnd(TrimStart(s))

Includes(s, q) ==
    \E i \in 0..(Len(s) - Len(q)) : SubSeq(s, i + 1, i + Len(q)) = q

(* s.split(','): the pieces between the commas, empty pieces included *)
RECURSIVE SplitFrom(_, _, _)
SplitFrom(s, i, piece) ==
    IF i > Len(s) THEN <<piece>>
    ELSE IF s[i] = "," THEN <<piece>> \o SplitFrom(s, i + 1, <<>>)
    ELSE SplitFrom(s, i + 1, Append(piece, s[i]))

Split(s) == SplitFrom(s, 1, <<>>)

(* a.localeCompare(b) in the default collation: whitespace and punctuation
   before letters, letters in alphabetical order whatever their case (primary
   weights), and on a primary tie lower case before upper case at the first
   difference (tertiary weights) *)
Collation == <<" ", ",", "a", "b", "c", "d", "e", "f", "g", "h", "i", "j", "k", "l", "m",
               "n", "o", "p", "q", "r", "s", "t", "u", "v", "w", "x", "y", "z">>

PrimaryWeight(c) == CHOOSE i \in 1..Len(Collation) : Collation[i] = Lower(c)

TertiaryWeight(c) == IF Lower(c) = c THEN 0 ELSE 1

CompareWeights(a, b, W(_)) ==
    LET RECURSIVE From(_)
        From(i) ==
            IF i > Len(a) /\ i > Len(b) THEN 0
            ELSE IF i > Len(a) THEN -1
            ELSE IF i > Len(b) THEN 1
            ELSE IF W(a[i]) < W(b[i]) THEN -1
            ELSE IF W(a[i]) > W(b[i]) THEN 1
            ELSE From(i + 1)
    IN  From(1)

LocaleCompare(a, b) ==
    LET p == CompareWeights(a, b, PrimaryWeight)
    IN  IF p # 0 THEN p ELSE CompareWeights(a, b, TertiaryWeight)

(* Array.prototype.sort with comparator Cmp: a stable sort *)
Sort(s, Cmp(_, _)) ==
    LET RECURSIVE Insert(_, _)
        Insert(sorted, x) ==
            IF sorted = <<>> THEN <<x>>
            ELSE IF Cmp(sorted[Len(sorted)], x) <= 0 THEN Append(sorted, x)
            ELSE Append(Insert(SubSeq(sorted, 1, Len(sorted) - 1), x),
                        sorted[Len(sorted)])
        RECURSIVE From(_, _)
        From(i, acc) == IF i > Len(s) THEN acc ELSE From(i + 1, Insert(acc, s[i]))
    IN  From(1, <<>>)

(* [...set].sort(cmp) for a set of strings that cmp orders totally *)
SortSet(S, Cmp(_, _)) ==
    LET RECURSIVE Rest(_)
        Rest(T) ==
            IF T = {} THEN <<>>
            ELSE LET m == CHOOSE x \in T : \A y \in T : Cmp(x, y) <= 0
                 IN  <<m>> \o Rest(T \ {m})
    IN  Rest(S)

Min(a, b) == IF a < b THEN a ELSE b

Range(s) == {s[i] : i \in 1..Len(s)}

(* the sequences of at most n distinct elements of S *)
RECURSIVE SeqsUpTo(_, _)
SeqsUpTo(S, n) ==
    IF n = 0 THEN {<<>>}
    ELSE LET shorter == SeqsUpTo(S, n - 1)
         IN  shorter \cup
             UNION {{Append(s, x) : x \in S \ Range(s)} :
                        s \in {t \in shorter : Len(t) = n - 1}}

---------------------------------------------------------------------------
(* The data: bookmarks.json.  A bookmark has a title, a URL, an optional
   description, category and section, and an array of tags.  The url strings
   stand for absolute URLs (new URL(link.url) at line 210 does not throw). *)

TagT == <<"t">>
TagU == <<"u">>
TagAT == <<"a", ",", "t">>
TagA == <<"a">>

CatC == <<"c">>
CatD == <<"d">>
SecS == <<"s">>
SecT == <<"t">>

Bookmark(title, href, description, category, section, tags) ==
    [title |-> title, url |-> href, description |-> description,
     category |-> category, section |-> section, tags |-> tags]

B1 == Bookmark(<<"b">>, <<"a", "x">>, <<>>, CatC, <<>>, <<TagT>>)
B2 == Bookmark(<<"A">>, <<"y">>, <<>>, CatC, <<>>, <<TagT, TagU>>)
B3 == Bookmark(<<"b">>, <<"z">>, <<" ", "a">>, CatC, SecS, <<TagU>>)
B4 == Bookmark(<<"b">>, <<"w">>, <<>>, CatC, SecT, <<TagAT>>)
B5 == Bookmark(<<"B">>, <<"v">>, <<>>, CatD, SecT, <<>>)
B6 == Bookmark(<<"b">>, <<"k">>, <<>>, <<>>, <<>>, <<TagT>>)

(* the bookmark lists the page is loaded with *)
Pool == {B3, B4, B5}

DataSets == SeqsUpTo(Pool, MaxBookmarks)

(* the texts typed into the search box *)
SearchTexts == {<<>>, <<"a">>, <<" ", "a">>}

---------------------------------------------------------------------------
(* The filter state, as the four globals of lines 2-5 *)

FilterState(tags, query, category, section) ==
    [selectedTags |-> tags, searchQuery |-> query,
     selectedCategory |-> category, selectedSection |-> section]

Cur == FilterState(selectedTags, searchQuery, selectedCategory, selectedSection)

NoFilter == FilterState({}, <<>>, Null, Null)

---------------------------------------------------------------------------
(* URL query parameters: URLSearchParams as the list of its name=value pairs *)

Param(name, value) == [name |-> name, value |-> value]

(* params.getAll(name) *)
GetAll(u, name) ==
    LET hits == SelectSeq(u, LAMBDA p : p.name = name)
    IN  [i \in 1..Len(hits) |-> hits[i].value]

(* params.get(name) || null *)
GetOrNull(u, name) ==
    LET all == GetAll(u, name) IN IF all = <<>> THEN Null ELSE all[1]

(* lines 40-47: every comma-separated piece of every tag parameter, trimmed,
   the empty ones dropped *)
ParseTags(u) ==
    LET values == GetAll(u, "tag")
    IN  UNION {
            {Trim(piece) : piece \in {x \in Range(Split(values[i])) : Truthy(Trim(x))}}
            : i \in 1..Len(values)}

(* applyFiltersFromURL: the filter state it leaves; the search box gets the
   same text as searchQuery (line 28) *)
(* the section taken from the URL as it is *)
SectionFromURLUnchecked(category, section) == section

SectionFromURL(category, section) ==
    IF Truthy(section) /\ ~Truthy(category) THEN Null ELSE section

ApplyFiltersFromURL(u) ==
    LET queryParam == GetOrNull(u, "q")
        category == GetOrNull(u, "category")
        section == GetOrNull(u, "section")
    IN  FilterState(ParseTags(u), queryParam, category, SectionFromURL(category, section))

TagParams(tags) ==
    LET sorted == SortSet(tags, LocaleCompare)
    IN  [i \in 1..Len(sorted) |-> Param("tag", sorted[i])]

(* updateURLParams: the query parameters it writes with replaceState *)
UpdateURLParams(f) ==
    LET trimmedQuery == Trim(f.searchQuery)
    IN  (IF Truthy(trimmedQuery) THEN <<Param("q", trimmedQuery)>> ELSE <<>>)
        \o (IF Truthy(f.selectedCategory)
             THEN <<Param("category", f.selectedCategory)>> ELSE <<>>)
        \o (IF Truthy(f.selectedSection)
             THEN <<Param("section", f.selectedSection)>> ELSE <<>>)
        \o TagParams(f.selectedTags)

---------------------------------------------------------------------------
(* Derived data *)

GetAllTags(bookmarkList) ==
    UNION {Range(bookmarkList[i].tags) : i \in 1..Len(bookmarkList)}

GetAllCategories(bm) ==
    SortSet({bm[i].category : i \in {j \in 1..Len(bm) : Truthy(bm[j].category)}},
            LocaleCompare)

GetSectionsForCategory(bm, category) ==
    SortSet({bm[i].section :
                i \in {j \in 1..Len(bm) :
                          bm[j].category = category /\ Truthy(bm[j].section)}},
            LocaleCompare)

MatchesSearch(b, query) ==
    LET q == ToLowerCase(query)
    IN  \/ Includes(ToLowerCase(b.title), q)
        \/ Includes(ToLowerCase(b.url), q)
        \/ (Truthy(b.description) /\ Includes(ToLowerCase(b.description), q))
        \/ \E i \in 1..Len(b.tags) : Includes(ToLowerCase(b.tags[i]), q)

HasEveryTag(b, tags) == \A tag \in tags : \E i \in 1..Len(b.tags) : b.tags[i] = tag

HasSomeTag(b, tags) == \E tag \in tags : \E i \in 1..Len(b.tags) : b.tags[i] = tag

(* getFilteredBookmarks with the tag filter as OR instead of AND *)
GetFilteredBookmarksAnyTag(bm, f) ==
    LET byCategory ==
            IF Truthy(f.selectedCategory)
            THEN SelectSeq(bm, LAMBDA b : b.category = f.selectedCategory)
            ELSE bm
        bySection ==
            IF Truthy(f.selectedCategory) /\ Truthy(f.selectedSection)
            THEN SelectSeq(byCategory, LAMBDA b : b.section = f.selectedSection)
            ELSE byCategory
        bySearch ==
            IF Truthy(Trim(f.searchQuery))
            THEN SelectSeq(bySection, LAMBDA b : MatchesSearch(b, f.searchQuery))
            ELSE bySection
    IN  IF f.selectedTags # {}
        THEN SelectSeq(bySearch, LAMBDA b : HasSomeTag(b, f.selectedTags))
        ELSE bySearch

(* getFilteredBookmarks matching with the trimmed search text *)
GetFilteredBookmarksTrimmed(bm, f) ==
    LET byCategory ==
            IF Truthy(f.selectedCategory)
            THEN SelectSeq(bm, LAMBDA b : b.category = f.selectedCategory)
            ELSE bm
        bySection ==
            IF Truthy(f.selectedCategory) /\ Truthy(f.selectedSection)
            THEN SelectSeq(byCategory, LAMBDA b : b.section = f.selectedSection)
            ELSE byCategory
        bySearch ==
            IF Truthy(Trim(f.searchQuery))
            THEN SelectSeq(bySection, LAMBDA b : MatchesSearch(b, Trim(f.searchQuery)))
            ELSE bySection
    IN  IF f.selectedTags # {}
        THEN SelectSeq(bySearch, LAMBDA b : HasEveryTag(b, f.selectedTags))
        ELSE bySearch

(* getFilteredBookmarks *)
GetFilteredBookmarks(bm, f) ==
    LET byCategory ==
            IF Truthy(f.selectedCategory)
            THEN SelectSeq(bm, LAMBDA b : b.category = f.selectedCategory)
            ELSE bm
        bySection ==
            IF Truthy(f.selectedCategory) /\ Truthy(f.selectedSection)
            THEN SelectSeq(byCategory, LAMBDA b : b.section = f.selectedSection)
            ELSE byCategory
        bySearch ==
            IF Truthy(Trim(f.searchQuery))
            THEN SelectSeq(bySection, LAMBDA b : MatchesSearch(b, f.searchQuery))
            ELSE bySection
    IN  IF f.selectedTags # {}
        THEN SelectSeq(bySearch, LAMBDA b : HasEveryTag(b, f.selectedTags))
        ELSE bySearch

(* counts[tag] of getTagCounts, 0 for a tag it has no entry for (line 155) *)
RECURSIVE TagCount(_, _)
TagCount(bookmarkList, tag) ==
    IF bookmarkList = <<>> THEN 0
    ELSE Cardinality({i \in 1..Len(Head(bookmarkList).tags) :
                         Head(bookmarkList).tags[i] = tag})
         + TagCount(Tail(bookmarkList), tag)

GetTagCounts(bookmarkList) ==
    [tag \in GetAllTags(bookmarkList) |-> TagCount(bookmarkList, tag)]

---------------------------------------------------------------------------
(* Rendering.  The page is the record
     pills            the buttons of #category-filter, in order
     tags             the buttons of #tag-list, in order
     clearHidden      #clear-filters has class 'hidden'
     cards            the .link-card elements of #bookmarks-grid, in order
     gridHidden       #bookmarks-grid has class 'hidden'
     noResultsHidden  #no-results has class 'hidden'
     count            the text of #bookmark-count                           *)

All == <<"a", "l", "l">>
Uncategorized == <<"U", "n", "c", "a", "t", "e", "g", "o", "r", "i", "z", "e", "d">>

CategoryPill(category, selected) ==
    [kind |-> "category", value |-> category, selected |-> selected]

SectionPill(section, selected) ==
    [kind |-> "section", value |-> section, selected |-> selected]

RenderCategoryFilter(bm, f) ==
    LET categories == GetAllCategories(bm)
        sections == GetSectionsForCategory(bm, f.selectedCategory)
    IN  <<CategoryPill(All, ~Truthy(f.selectedCategory))>>
        \o (IF ~Truthy(f.selectedCategory)
             THEN [i \in 1..Len(categories) |-> CategoryPill(categories[i], FALSE)]
             ELSE <<CategoryPill(f.selectedCategory, TRUE)>>
                  \o [i \in 1..Len(sections) |->
                         SectionPill(sections[i], f.selectedSection = sections[i])])

(* line 158 *)
HasActiveFilters(f) ==
    f.selectedTags # {} \/ Truthy(f.selectedCategory) \/ Truthy(Trim(f.searchQuery))

(* line 184 without the trim of the search text *)
HasFiltersUntrimmed(f) ==
    f.selectedTags # {} \/ f.selectedCategory # Null \/ Truthy(f.searchQuery)

(* line 184 *)
HasFilters(f) ==
    f.selectedTags # {} \/ f.selectedCategory # Null \/ Truthy(Trim(f.searchQuery))

(* the filter of lines 156-161 letting every tag through *)
TagShownAlways(f, tag, count) == TRUE

(* the filter of lines 156-161 *)
TagShown(f, tag, count) ==
    IF tag \in f.selectedTags THEN TRUE
    ELSE IF HasActiveFilters(f) /\ count = 0 THEN FALSE
    ELSE TRUE

(* the comparator of lines 162-168 *)
CompareTagData(a, b) ==
    LET aSelected == IF a.selected THEN 1 ELSE 0
        bSelected == IF b.selected THEN 1 ELSE 0
    IN  IF aSelected # bSelected THEN bSelected - aSelected
        ELSE IF b.count # a.count THEN b.count - a.count
        ELSE LocaleCompare(a.tag, b.tag)

(* the buttons of the tag list: allTags is a Set, so the tags are distinct and
   the comparator orders them totally *)
RenderTagList(bm, f) ==
    LET filtered == GetFilteredBookmarks(bm, f)
        tagData == {[tag |-> tag, count |-> TagCount(filtered, tag),
                     selected |-> tag \in f.selectedTags] : tag \in GetAllTags(bm)}
    IN  SortSet({d \in tagData : TagShown(f, d.tag, d.count)}, CompareTagData)

ClearHidden(f) == ~HasFilters(f)

GroupKey(b) == IF Truthy(b.category) THEN b.category ELSE Uncategorized

(* groupBookmarks: for every category key the bookmarks without a section and,
   per section, the bookmarks of the section, each in list order (push) *)
GroupBookmarks(bookmarkList) ==
    [cat \in {GroupKey(bookmarkList[i]) : i \in 1..Len(bookmarkList)} |->
        LET inCat == SelectSeq(bookmarkList, LAMBDA b : GroupKey(b) = cat)
        IN  [noSection |-> SelectSeq(inCat, LAMBDA b : ~Truthy(b.section)),
             sections |->
                [sec \in {inCat[i].section :
                             i \in {j \in 1..Len(inCat) : Truthy(inCat[j].section)}} |->
                    SelectSeq(inCat, LAMBDA b : b.section = sec)]]]

CompareTitle(a, b) == LocaleCompare(a.title, b.title)

RECURSIVE Flatten(_)
Flatten(ss) == IF ss = <<>> THEN <<>> ELSE Head(ss) \o Flatten(Tail(ss))

(* the same with the sections rendered before the bookmarks without a section *)
CategoryLinksSectionsFirst(catData) ==
    LET sortedSections == SortSet(DOMAIN catData.sections, LocaleCompare)
    IN  Flatten([i \in 1..Len(sortedSections) |->
                   Sort(catData.sections[sortedSections[i]], CompareTitle)])
        \o Sort(catData.noSection, CompareTitle)

(* lines 286-305: the links of one category in the order their cards are made *)
CategoryLinks(catData) ==
    LET sortedSections == SortSet(DOMAIN catData.sections, LocaleCompare)
    IN  Sort(catData.noSection, CompareTitle)
        \o Flatten([i \in 1..Len(sortedSections) |->
                       Sort(catData.sections[sortedSections[i]], CompareTitle)])

(* lines 274-308: the links in the order of cardIndex *)
OrderedLinks(filtered) ==
    LET grouped == GroupBookmarks(filtered)
        sortedCategories == SortSet(DOMAIN grouped, LocaleCompare)
    IN  Flatten([i \in 1..Len(sortedCategories) |->
                   CategoryLinks(grouped[sortedCategories[i]])])

(* renderBookmarkCard: the card's href, its position and its badge (0: none) *)
RenderBookmarkCard(link, index) ==
    [href |-> link.url, link |-> link, index |-> index,
     badge |-> IF index < BadgeLimit THEN index + 1 ELSE 0]

CountText(n) == [n |-> n, plural |-> n # 1]

(* renderBookmarks: what it leaves of the grid, given the grid it finds *)
RenderBookmarks(bm, f, cardsBefore) ==
    LET filtered == GetFilteredBookmarks(bm, f)
        links == OrderedLinks(filtered)
    IN  IF Len(filtered) = 0
        THEN [cards |-> cardsBefore, gridHidden |-> TRUE, noResultsHidden |-> FALSE,
              count |-> CountText(0)]
        ELSE [cards |-> [i \in 1..Len(links) |-> RenderBookmarkCard(links[i], i - 1)],
              gridHidden |-> FALSE, noResultsHidden |-> TRUE,
              count |-> CountText(Len(filtered))]

(* render: renderCategoryFilter, renderTagList, renderBookmarks *)
Render(bm, f, before) ==
    [pills |-> RenderCategoryFilter(bm, f),
     tags |-> RenderTagList(bm, f),
     clearHidden |-> ClearHidden(f)]
    @@ RenderBookmarks(bm, f, before.cards)

(* the title sort applied to the filtered array itself, which is the bookmarks
   array when no filter replaced it (line 103) *)
BookmarksSortedInPlace(bm, f) ==
    IF Truthy(f.selectedCategory) \/ Truthy(Trim(f.searchQuery)) \/ f.selectedTags # {}
    THEN bm
    ELSE Sort(bm, CompareTitle)

(* the arrays render sorts in place (lines 287, 298) are the ones groupBookmarks
   creates (lines 196, 199), so the bookmarks array is left as it was *)
BookmarksAfterRender(bm, f) == bm

---------------------------------------------------------------------------
(* The state changes of the handlers *)

(* selectCategory without the reset of the section on a change of category *)
SelectCategoryKeepSection(f, category) ==
    IF category = All \/ category = f.selectedCategory
    THEN [f EXCEPT !.selectedCategory = Null, !.selectedSection = Null]
    ELSE [f EXCEPT !.selectedCategory = category]

(* selectCategory *)
SelectCategoryState(f, category) ==
    IF category = All \/ category = f.selectedCategory
    THEN [f EXCEPT !.selectedCategory = Null, !.selectedSection = Null]
    ELSE [f EXCEPT !.selectedCategory = category, !.selectedSection = Null]

SelectSectionState(f, section) ==
    IF f.selectedSection = section
    THEN [f EXCEPT !.selectedSection = Null]
    ELSE [f EXCEPT !.selectedSection = section]

ToggleTagState(f, tag) ==
    IF tag \in f.selectedTags
    THEN [f EXCEPT !.selectedTags = @ \ {tag}]
    ELSE [f EXCEPT !.selectedTags = @ \cup {tag}]

(* render() called before the assignments *)
PageAfterStale(bm, before, after, page) == Render(bm, before, page)

(* the tail of every handler that changes the filter state: updateURLParams(),
   then render(), both after the assignments *)
URLAfter(before, after) == UpdateURLParams(after)

PageAfter(bm, before, after, page) == Render(bm, after, page)

SetFilter(f) ==
    /\ selectedTags' = f.selectedTags
    /\ searchQuery' = f.searchQuery
    /\ selectedCategory' = f.selectedCategory
    /\ selectedSection' = f.selectedSection

(* a handler that leaves the filter state f behind, then updates URL and page *)
Commit(f) ==
    /\ SetFilter(f)
    /\ url' = URLAfter(Cur, f)
    /\ dom' = PageAfter(bookmarks, Cur, f, dom)
    /\ bookmarks' = BookmarksAfterRender(bookmarks, f)

Key(key, n, hrefs) == [key |-> key, n |-> n, hrefs |-> hrefs]

NoEvent == Key("none", 0, <<>>)

---------------------------------------------------------------------------
(* The page as served, before the script has rendered anything: the script
   does not decide which of the three elements start hidden *)

StaticCount == [n |-> -1, plural |-> FALSE]

StaticPages ==
    {[pills |-> <<>>, tags |-> <<>>, clearHidden |-> c, cards |-> <<>>,
      gridHidden |-> g, noResultsHidden |-> r, count |-> StaticCount] :
        c \in BOOLEAN, g \in BOOLEAN, r \in BOOLEAN}

(* the query strings the page is opened with *)
InitialURLs ==
    {q \o c \o s \o g :
        q \in {<<>>, <<Param("q", <<" ", "a">>)>>},
        c \in {<<>>, <<Param("category", CatD)>>},
        s \in {<<>>, <<Param("section", SecS)>>},
        g \in {<<>>, <<Param("tag", <<"t", ",", " ", "u">>)>>}}

Init ==
    /\ pc = "loading"
    /\ bookmarks = <<>>
    /\ selectedTags = {}
    /\ searchQuery = <<>>
    /\ selectedCategory = Null
    /\ selectedSection = Null
    /\ inputValue = <<>>
    /\ url \in InitialURLs
    /\ dom \in StaticPages
    /\ listeners = 0
    /\ pending = FALSE
    /\ elapsed = 0
    /\ helpVisible = FALSE
    /\ focus = "other"
    /\ event = NoEvent
    /\ errors = 0

---------------------------------------------------------------------------
(* loadBookmarks *)

(* fetch and response.json() succeed: lines 12-15 *)
LoadOK ==
    /\ pc = "loading"
    /\ \E data \in DataSets :
        LET f == ApplyFiltersFromURL(url)
        IN  /\ SetFilter(f)
            /\ inputValue' = f.searchQuery
            /\ dom' = Render(data, f, dom)
            /\ bookmarks' = BookmarksAfterRender(data, f)
    /\ listeners' = listeners + 1
    /\ pc' = "ready"
    /\ UNCHANGED <<url, pending, elapsed, helpVisible, focus, event, errors>>

(* applyFiltersFromURL() run before the fetch *)
LoadFailAfterFilters ==
    /\ pc = "loading"
    /\ pc' = "failed"
    /\ errors' = errors + 1
    /\ SetFilter(ApplyFiltersFromURL(url))
    /\ inputValue' = ApplyFiltersFromURL(url).searchQuery
    /\ UNCHANGED <<bookmarks, url, dom, listeners, pending, elapsed, helpVisible, focus,
                   event>>

(* fetch or response.json() rejects: line 17 *)
LoadFail ==
    /\ pc = "loading"
    /\ pc' = "failed"
    /\ errors' = errors + 1
    /\ UNCHANGED <<bookmarks, selectedTags, searchQuery, selectedCategory,
                   selectedSection, inputValue, url, dom, listeners, pending, elapsed,
                   helpVisible, focus, event>>

---------------------------------------------------------------------------
(* Clicks.  A click outside the help overlay also closes it (lines 749-753)
   and takes the focus to the clicked button. *)

(* the listeners are installed and no handler is running *)
Listening == pc = "ready" /\ listeners > 0 /\ event = NoEvent

ClickTag ==
    /\ Listening
    /\ \E i \in 1..Len(dom.tags) : Commit(ToggleTagState(Cur, dom.tags[i].tag))
    /\ helpVisible' = FALSE
    /\ focus' = "other"
    /\ event' = NoEvent
    /\ UNCHANGED <<pc, inputValue, listeners, pending, elapsed, errors>>

ClickFilterPill ==
    /\ Listening
    /\ \E i \in 1..Len(dom.pills) :
        LET pill == dom.pills[i]
        IN  IF pill.kind = "section"
            THEN Commit(SelectSectionState(Cur, pill.value))
            ELSE Commit(SelectCategoryState(Cur, pill.value))
    /\ helpVisible' = FALSE
    /\ focus' = "other"
    /\ event' = NoEvent
    /\ UNCHANGED <<pc, inputValue, listeners, pending, elapsed, errors>>

(* clearFilters without line 402, which empties the search box *)
ClearFiltersKeepBox ==
    /\ Commit(NoFilter)
    /\ UNCHANGED inputValue

(* clearFilters *)
ClearFilters ==
    /\ Commit(NoFilter)
    /\ inputValue' = <<>>

ClickClearFilters ==
    /\ Listening
    /\ ClearFilters
    /\ helpVisible' = FALSE
    /\ focus' = "other"
    /\ event' = NoEvent
    /\ UNCHANGED <<pc, listeners, pending, elapsed, errors>>

ClickSearchBox ==
    /\ pc \in {"ready", "failed"}
    /\ event = NoEvent
    /\ focus # "search"
    /\ focus' = "search"
    /\ helpVisible' = FALSE
    /\ event' = NoEvent
    /\ UNCHANGED <<pc, bookmarks, selectedTags, searchQuery, selectedCategory,
                   selectedSection, inputValue, url, dom, listeners, pending, elapsed,
                   errors>>

(* the help trigger button, lines 745-747 *)
ClickHelpTrigger ==
    /\ pc \in {"ready", "failed"}
    /\ event = NoEvent
    /\ helpVisible' = ~helpVisible
    /\ focus' = "other"
    /\ event' = NoEvent
    /\ UNCHANGED <<pc, bookmarks, selectedTags, searchQuery, selectedCategory,
                   selectedSection, inputValue, url, dom, listeners, pending, elapsed,
                   errors>>

---------------------------------------------------------------------------
(* The search box *)

(* the input handler, lines 478-485: clearTimeout, setTimeout(..., 150) *)
ArmDebounce ==
    IF listeners > 0
    THEN /\ pending' = TRUE
         /\ elapsed' = 0
         /\ event' = Key("input", 0, <<>>)
    ELSE UNCHANGED <<pending, elapsed, event>>

(* the user edits the text of the focused search box *)
SearchInput ==
    /\ pc \in {"ready", "failed"}
    /\ event = NoEvent
    /\ focus = "search"
    /\ \E text \in SearchTexts : text # inputValue /\ inputValue' = text
    /\ ArmDebounce
    /\ UNCHANGED <<pc, bookmarks, selectedTags, searchQuery, selectedCategory,
                   selectedSection, url, dom, listeners, helpVisible, focus, errors>>

TimeSteps == {100}

(* time passes while the timeout is pending *)
Advance ==
    /\ pending
    /\ event = NoEvent
    /\ elapsed < DebounceMs
    /\ \E d \in TimeSteps : elapsed' = Min(elapsed + d, DebounceMs)
    /\ UNCHANGED <<pc, bookmarks, selectedTags, searchQuery, selectedCategory,
                   selectedSection, inputValue, url, dom, listeners, pending,
                   helpVisible, focus, event, errors>>

(* a callback that does not wait for the delay *)
DebounceFireEarly ==
    /\ pending
    /\ event = NoEvent
    /\ Commit([Cur EXCEPT !.searchQuery = inputValue])
    /\ pending' = FALSE
    /\ elapsed' = 0
    /\ event' = Key("timer", 0, <<>>)
    /\ UNCHANGED <<pc, inputValue, listeners, helpVisible, focus, errors>>

(* the timeout callback, lines 481-483 *)
DebounceFire ==
    /\ pending
    /\ event = NoEvent
    /\ elapsed >= DebounceMs
    /\ Commit([Cur EXCEPT !.searchQuery = inputValue])
    /\ pending' = FALSE
    /\ elapsed' = 0
    /\ event' = Key("timer", 0, <<>>)
    /\ UNCHANGED <<pc, inputValue, listeners, helpVisible, focus, errors>>

---------------------------------------------------------------------------
(* The keydown handler, lines 505-614.  The arrow keys and c, t, f move the
   focus between buttons and cards or copy a link: they leave every variable
   of the model as it is and are not modelled. *)

(* Escape, lines 510-522 *)
KeyEscape ==
    /\ Listening
    /\ IF helpVisible
       THEN /\ helpVisible' = FALSE
            /\ UNCHANGED <<bookmarks, selectedTags, searchQuery, selectedCategory,
                           selectedSection, inputValue, url, dom, focus>>
       ELSE /\ IF HasActiveFilters(Cur)
               THEN ClearFilters
               ELSE UNCHANGED <<bookmarks, selectedTags, searchQuery, selectedCategory,
                                selectedSection, inputValue, url, dom>>
            /\ focus' = "other"
            /\ UNCHANGED helpVisible
    /\ event' = NoEvent
    /\ UNCHANGED <<pc, listeners, pending, elapsed, errors>>

(* document.querySelectorAll('.link-card'), line 506: every card in the grid,
   whether the grid is hidden or not *)
QueryCards(page) == page.cards

(* Enter in the search box, lines 525-529 *)
KeyEnter ==
    /\ Listening
    /\ focus = "search"
    /\ LET cards == QueryCards(dom)
       IN  event' = Key("enter", 0, IF Len(cards) > 0 THEN <<cards[1].href>> ELSE <<>>)
    /\ UNCHANGED <<pc, bookmarks, selectedTags, searchQuery, selectedCategory,
                   selectedSection, inputValue, url, dom, listeners, pending, elapsed,
                   helpVisible, focus, errors>>

(* Alt + 1..9 outside editable fields, lines 532-542 *)
AltOpens(cards, n) == IF n <= Len(cards) THEN <<cards[n].href>> ELSE <<>>

(* the digits 1..9; a page of the model holds at most MaxBookmarks cards, and
   every digit above MaxBookmarks + 1 behaves as that one does *)
AltKeys == 1..Min(BadgeLimit, MaxBookmarks + 1)

KeyAlt ==
    /\ Listening
    /\ focus # "search"
    /\ \E n \in AltKeys : event' = Key("alt", n, AltOpens(QueryCards(dom), n))
    /\ UNCHANGED <<pc, bookmarks, selectedTags, searchQuery, selectedCategory,
                   selectedSection, inputValue, url, dom, listeners, pending, elapsed,
                   helpVisible, focus, errors>>

(* '/', lines 601-605 *)
KeySlash ==
    /\ Listening
    /\ focus # "search"
    /\ focus' = "search"
    /\ event' = NoEvent
    /\ UNCHANGED <<pc, bookmarks, selectedTags, searchQuery, selectedCategory,
                   selectedSection, inputValue, url, dom, listeners, pending, elapsed,
                   helpVisible, errors>>

(* '?', lines 594-598 and toggleHelpOverlay *)
KeyQuestion ==
    /\ Listening
    /\ focus # "search"
    /\ helpVisible' = ~helpVisible
    /\ event' = NoEvent
    /\ UNCHANGED <<pc, bookmarks, selectedTags, searchQuery, selectedCategory,
                   selectedSection, inputValue, url, dom, listeners, pending, elapsed,
                   focus, errors>>

(* a printable key outside the search box, lines 608-613; the space and the
   keys handled above are not printable keys in this sense *)
PrintableKeys == {"a"}

KeyPrintable ==
    /\ Listening
    /\ focus # "search"
    /\ \E c \in PrintableKeys :
        /\ Append(inputValue, c) \in SearchTexts
        /\ inputValue' = Append(inputValue, c)
    /\ focus' = "search"
    /\ ArmDebounce
    /\ UNCHANGED <<pc, bookmarks, selectedTags, searchQuery, selectedCategory,
                   selectedSection, url, dom, listeners, helpVisible, errors>>

(* the handler returns *)
Handled ==
    /\ event # NoEvent
    /\ event' = NoEvent
    /\ UNCHANGED <<pc, bookmarks, selectedTags, searchQuery, selectedCategory,
                   selectedSection, inputValue, url, dom, listeners, pending, elapsed,
                   helpVisible, focus, errors>>

---------------------------------------------------------------------------

Next ==
    \/ LoadOK
    \/ LoadFail
    \/ ClickTag
    \/ ClickFilterPill
    \/ ClickClearFilters
    \/ ClickSearchBox
    \/ SearchInput
    \/ Advance
    \/ DebounceFire
    \/ KeyEscape
    \/ KeyEnter
    \/ KeyAlt
    \/ KeySlash
    \/ KeyPrintable
    \/ Handled

Spec == Init /\ [][Next]_vars

(* the same with the help overlay in use *)
HelpNext == Next \/ ClickHelpTrigger \/ KeyQuestion

HelpSpec == Init /\ [][HelpNext]_vars

---------------------------------------------------------------------------
(* The pure pipeline on its own: any bookmark list of the six bookmarks, any
   filter state (reachable from the page or not), then one render() *)

PureLists == SeqsUpTo({B1, B2, B3, B4, B5, B6}, MaxBookmarks)

PureQueries == {<<>>, <<" ">>, <<"a">>, <<"A">>, <<" ", "a">>, <<"b">>}

BlankPage ==
    [pills |-> <<>>, tags |-> <<>>, clearHidden |-> TRUE, cards |-> <<>>,
     gridHidden |-> FALSE, noResultsHidden |-> TRUE, count |-> StaticCount]

PureInit ==
    /\ pc = "pure"
    /\ bookmarks \in PureLists
    /\ selectedTags \in SUBSET {TagT, TagU, TagAT}
    /\ searchQuery \in PureQueries
    /\ selectedCategory \in {Null, CatC, CatD}
    /\ selectedSection \in {Null, SecS, SecT}
    /\ inputValue = searchQuery
    /\ url = <<>>
    /\ dom = BlankPage
    /\ listeners = 0
    /\ pending = FALSE
    /\ elapsed = 0
    /\ helpVisible = FALSE
    /\ focus = "other"
    /\ event = NoEvent
    /\ errors = 0

(* updateURLParams(); render() *)
PureRender ==
    /\ pc = "pure"
    /\ pc' = "shown"
    /\ Commit(Cur)
    /\ UNCHANGED <<inputValue, listeners, pending, elapsed, helpVisible, focus, event,
                   errors>>

PureNext == PureRender

PureSpec == PureInit /\ [][PureNext]_vars

---------------------------------------------------------------------------
(* Properties *)

Filtered == GetFilteredBookmarks(bookmarks, Cur)

IsBlank(s) == \A i \in 1..Len(s) : s[i] = " "

OccursIgnoringCase(text, field) ==
    \E i \in 0..(Len(field) - Len(text)) :
        \A k \in 1..Len(text) : Lower(field[i + k]) = Lower(text[k])

SatisfiesAllFilters(b, f) ==
    /\ f.selectedCategory # Null => b.category = f.selectedCategory
    /\ (f.selectedCategory # Null /\ f.selectedSection # Null)
            => b.section = f.selectedSection
    /\ ~IsBlank(f.searchQuery) =>
            \/ OccursIgnoringCase(f.searchQuery, b.title)
            \/ OccursIgnoringCase(f.searchQuery, b.url)
            \/ OccursIgnoringCase(f.searchQuery, b.description)
            \/ \E t \in Range(b.tags) : OccursIgnoringCase(f.searchQuery, t)
    /\ f.selectedTags \subseteq Range(b.tags)

(* C1: getFilteredBookmarks returns, in list order, exactly the bookmarks that
   satisfy every active filter: the selected category, the selected section (when
   a category is selected too), the non-blank search text as a case-insensitive
   substring of title, URL, description or a tag, and all the selected tags. *)
C1_FilterIsConjunction ==
    Filtered = SelectSeq(bookmarks, LAMBDA b : SatisfiesAllFilters(b, Cur))

(* all four filters are active, and they keep some bookmarks and drop others *)
C1_Witness ==
    /\ pc = "shown"
    /\ selectedCategory # Null /\ selectedSection # Null
    /\ ~IsBlank(searchQuery) /\ selectedTags # {}
    /\ Filtered # <<>> /\ Len(Filtered) < Len(bookmarks)
    /\ dom.count.n = Len(Filtered)

CardLinks == [i \in 1..Len(dom.cards) |-> dom.cards[i].link]

Occurrences(s, x) == Cardinality({i \in 1..Len(s) : s[i] = x})

CategoryName(b) == IF b.category = <<>> THEN Uncategorized ELSE b.category

(* x is laid out strictly before y *)
LaidOutBefore(x, y) ==
    LET c == LocaleCompare(CategoryName(x), CategoryName(y))
    IN  \/ c < 0
        \/ /\ c = 0
           /\ \/ x.section = <<>> /\ y.section # <<>>
              \/ /\ x.section # <<>> /\ y.section # <<>>
                 /\ LocaleCompare(x.section, y.section) < 0
              \/ /\ x.section = y.section
                 /\ LocaleCompare(x.title, y.title) < 0

(* C9: renderBookmarks gives every filtered bookmark exactly one card, the cards
   carry the indices 0, 1, 2, ... in order, and they run by category name
   ('Uncategorized' for none), then bookmarks without a section before the
   sections by name, then by title. *)
C9_CardOrder ==
    (pc = "shown" /\ Filtered # <<>>) =>
        /\ Len(dom.cards) = Len(Filtered)
        /\ \A b \in Range(Filtered) \cup Range(CardLinks) :
                Occurrences(CardLinks, b) = Occurrences(Filtered, b)
        /\ \A i \in 1..Len(dom.cards) : dom.cards[i].index = i - 1
        /\ \A i, j \in 1..Len(dom.cards) :
                i < j => ~LaidOutBefore(CardLinks[j], CardLinks[i])

(* two cards in another order than the list gave them *)
C9_Witness ==
    /\ pc = "shown"
    /\ Len(dom.cards) >= 2
    /\ Len(dom.cards) = Len(Filtered)
    /\ CardLinks # Filtered

(* C2: a section is selected only while a category is selected. *)
C2_SectionImpliesCategory == selectedSection # Null => selectedCategory # Null

(* a section pill of the selected category has been clicked *)
C2_Witness ==
    /\ pc = "ready"
    /\ selectedSection # Null
    /\ \E i \in 1..Len(dom.pills) :
        dom.pills[i] = SectionPill(selectedSection, TRUE)

(* C3: applyFiltersFromURL on the URL written by updateURLParams restores the
   selected tags, the category and the section, and the trimmed search text. *)
C3_URLRoundTrip ==
    pc = "ready" =>
        ApplyFiltersFromURL(UpdateURLParams(Cur)) = [Cur EXCEPT !.searchQuery = Trim(@)]

(* what a step may do to the delayed search update: the input handler only
   restarts the delay, and the timer callback is the only step that uses it up *)
C4_Steps ==
    /\ (event.key = "none" /\ event'.key = "input") =>
            /\ pending' /\ elapsed' = 0
            /\ UNCHANGED <<searchQuery, url, dom>>
    /\ (event.key = "none" /\ event'.key = "timer") =>
            /\ pending /\ elapsed >= DebounceMs /\ ~pending'
            /\ searchQuery' = inputValue
            /\ url' = UpdateURLParams(Cur')
            /\ dom' = Render(bookmarks', Cur', dom)
    /\ (pending /\ ~pending') => event'.key = "timer"
    /\ (~pending /\ pending') => event'.key = "input"

(* C4: an input event changes neither searchQuery nor the URL nor the page and
   restarts the delay; the update runs only once the full delay has passed since
   the last input event, takes the text the box holds then, rewrites the URL and
   renders; a pending update is used up by nothing else. *)
C4_Debounce == [][C4_Steps]_vars

(* the update has just run, after a text was typed that differs from the query *)
C4_Witness ==
    /\ event.key = "timer"
    /\ searchQuery = inputValue
    /\ searchQuery = <<" ", "a">>
    /\ url = UpdateURLParams(Cur)

(* what a step may do to the listeners, the URL and the page *)
C5_Steps ==
    /\ listeners' <= 1
    /\ listeners' # listeners =>
            /\ pc = "loading" /\ pc' = "ready"
            /\ Cur' = ApplyFiltersFromURL(url)
            /\ dom' = Render(bookmarks', Cur', dom)
    /\ (pc = "ready" /\ Cur' # Cur) =>
            /\ url' = UpdateURLParams(Cur')
            /\ dom' = Render(bookmarks', Cur', dom)
    /\ pc' = "ready" =>
            /\ listeners' = 1
            /\ dom'.pills = RenderCategoryFilter(bookmarks', Cur')
            /\ dom'.tags = RenderTagList(bookmarks', Cur')
            /\ dom'.count = CountText(Len(GetFilteredBookmarks(bookmarks', Cur')))

(* C5: the listeners are installed once, by the step that loaded the bookmarks,
   applied the filters of the URL and rendered; and a handler that changes the
   filter state leaves the URL written from, and the page rendered from, the
   state it leaves. *)
C5_LoadFilterRenderListen == [][C5_Steps]_vars

(* a tag was toggled on after the load: state, URL and page agree *)
C5_Witness ==
    /\ pc = "ready"
    /\ listeners = 1
    /\ TagAT \in selectedTags
    /\ url = UpdateURLParams(Cur)
    /\ Len(dom.cards) = Len(Filtered)
    /\ Filtered # <<>>

(* C6: when the load fails, one error is logged and nothing else happens: no
   bookmarks, the initial filter state, the page as served, no listener. *)
C6_LoadFailure ==
    pc = "failed" =>
        /\ errors = 1
        /\ bookmarks = <<>>
        /\ Cur = NoFilter
        /\ dom \in StaticPages
        /\ listeners = 0
        /\ ~pending

(* the load failed on a URL that carries filters, and the user typed a text *)
C6_Witness ==
    /\ pc = "failed"
    /\ GetOrNull(url, "category") # Null
    /\ GetAll(url, "tag") # <<>>
    /\ inputValue # <<>>

(* C7: once loaded, the bookmarks list is never changed. *)
C7_NoDataMutation == [][pc = "ready" => bookmarks' = bookmarks]_vars

(* the unfiltered list is rendered in an order that differs from its own *)
C7_Witness ==
    /\ pc = "ready"
    /\ ~HasActiveFilters(Cur)
    /\ Len(bookmarks) >= 2
    /\ Len(dom.cards) = Len(bookmarks)
    /\ CardLinks # bookmarks
    /\ url = <<>>

(* C8: after every render the cards of the grid are the filtered bookmarks, one
   card each, the count shows their number, and with no match the grid holds no
   card and the no-results message is shown in its place. *)
C8_CardsMatchFiltered ==
    pc = "ready" =>
        /\ Len(dom.cards) = Len(Filtered)
        /\ \A b \in Range(Filtered) \cup Range(CardLinks) :
                Occurrences(CardLinks, b) = Occurrences(Filtered, b)
        /\ dom.count.n = Len(Filtered)
        /\ Filtered = <<>> =>
                (dom.cards = <<>> /\ dom.gridHidden /\ ~dom.noResultsHidden)

(* C10: Alt+n outside the search box opens the bookmark of the card with badge n
   of the current results, and nothing when there are fewer than n results. *)
C10_AltOpensResult ==
    event.key = "alt" =>
        IF event.n <= Len(Filtered)
        THEN /\ ~dom.gridHidden
             /\ \E i \in 1..Len(dom.cards) :
                    /\ dom.cards[i].badge = event.n
                    /\ event.hrefs = <<dom.cards[i].link.url>>
        ELSE event.hrefs = <<>>

(* the results for the text the search box holds, in display order *)
ResultsForBoxText ==
    OrderedLinks(GetFilteredBookmarks(bookmarks, [Cur EXCEPT !.searchQuery = inputValue]))

(* C11: Enter in the focused search box opens the first bookmark, in display
   order, of the results for the text the box holds at that moment, and nothing
   when that text matches no bookmark. *)
C11_EnterOpensFirstResult ==
    event.key = "enter" =>
        event.hrefs = IF ResultsForBoxText = <<>>
                      THEN <<>>
                      ELSE <<ResultsForBoxText[1].url>>

(* no filter is active and the search box is empty *)
NothingToFilter == Cur = NoFilter /\ inputValue = <<>>

(* C12: Escape with the help overlay visible only hides the overlay and leaves
   the filter state and the text of the search box as they are; Escape with the
   overlay hidden leaves no filter active and the search box empty, and no step
   other than a user's input (time passing, the delayed search update, a handler
   returning) makes a filter active again. *)
C12_EscapeClearsOrCloses ==
    [][/\ (KeyEscape /\ helpVisible) =>
                /\ ~helpVisible'
                /\ UNCHANGED <<selectedTags, selectedCategory, selectedSection,
                               searchQuery, inputValue>>
       /\ (KeyEscape /\ ~helpVisible) => NothingToFilter'
       /\ (NothingToFilter /\ (Advance \/ DebounceFire \/ Handled)) => NothingToFilter'
      ]_vars

(* C13: the load step, which runs applyFiltersFromURL, leaves a section selected
   only together with a category, and only a section that some bookmark of that
   category has. *)
C13_URLSectionBelongsToCategory ==
    [][(pc = "loading" /\ pc' = "ready" /\ selectedSection' # Null) =>
            /\ selectedCategory' # Null
            /\ \E i \in 1..Len(GetSectionsForCategory(bookmarks', selectedCategory')) :
                    GetSectionsForCategory(bookmarks', selectedCategory')[i] = selectedSection'
      ]_vars

(* the values selectCategory may be called with: 'all' and every category *)
CategoryChoices == {All} \cup Range(GetAllCategories(bookmarks))

(* selectCategory(c) in the current state: reset or switch, the rest kept *)
SelectCategoryResetsOrSwitches ==
    \A c \in CategoryChoices :
        LET after == SelectCategoryState(Cur, c)
        IN  /\ after.selectedSection = Null
            /\ after.selectedCategory =
                    IF c = All \/ c = selectedCategory THEN Null ELSE c
            /\ after.selectedTags = selectedTags
            /\ after.searchQuery = searchQuery
            /\ (c # All /\ c # selectedCategory) =>
                    /\ SelectCategoryState(after, c).selectedCategory = Null
                    /\ SelectCategoryState(after, c).selectedSection = Null

(* C14: selectCategory(c) leaves no category and no section when c is 'all' or
   the selected category, and otherwise category c and no section; it keeps the
   selected tags, the search text and the bookmarks; selecting a category and
   then the same again leaves no category. *)
C14_SelectCategory ==
    /\ [](pc = "ready" => SelectCategoryResetsOrSwitches)
    /\ [][ClickFilterPill =>
            /\ UNCHANGED <<selectedTags, searchQuery, bookmarks>>
            /\ selectedCategory' # selectedCategory => selectedSection' = Null
         ]_vars

(* category c was selected by a click, under a search text and selected tags,
   in a list that also has another category *)
C14_Witness ==
    /\ pc = "ready"
    /\ selectedCategory = CatC
    /\ selectedSection = Null
    /\ selectedTags # {}
    /\ searchQuery # <<>>
    /\ CatD \in CategoryChoices

(* the steps that run clearFilters: the clear button, and Escape with an active
   filter while the help overlay is hidden *)
ClearFiltersStep ==
    \/ ClickClearFilters
    \/ KeyEscape /\ ~helpVisible /\ HasActiveFilters(Cur)

(* the page shows every bookmark: one card each, the count of all, and the grid
   visible unless there is no bookmark at all *)
ShowsAllBookmarks ==
    /\ Len(dom.cards) = Len(bookmarks)
    /\ \A b \in Range(bookmarks) \cup Range(CardLinks) :
            Occurrences(CardLinks, b) = Occurrences(bookmarks, b)
    /\ dom.count.n = Len(bookmarks)
    /\ dom.gridHidden <=> bookmarks = <<>>

(* C15: clearFilters leaves no tag, no category and no section selected, the
   search text and the search box empty, the URL without a query string, and
   the page showing the full bookmark list. *)
C15_ClearFilters ==
    [][ClearFiltersStep =>
            /\ selectedTags' = {}
            /\ selectedCategory' = Null
            /\ selectedSection' = Null
            /\ searchQuery' = <<>>
            /\ inputValue' = <<>>
            /\ url' = <<>>
            /\ ShowsAllBookmarks'
      ]_vars

(* the state clearFilters leaves, here with two bookmarks and while a delayed
   search update is still waiting *)
C15_Witness ==
    /\ pc = "ready"
    /\ Cur = NoFilter
    /\ inputValue = <<>>
    /\ url = <<>>
    /\ Len(bookmarks) = 2
    /\ ShowsAllBookmarks
    /\ pending /\ elapsed > 0
    /\ focus = "other"

(* no tag, no category and no section is selected and the search text is blank *)
NoFilterActive ==
    /\ selectedTags = {}
    /\ selectedCategory = Null
    /\ selectedSection = Null
    /\ IsBlank(searchQuery)

(* C16: after a render, in a filter state the page can be in (a section only
   together with a category), the clear-filters button is hidden exactly when no
   filter is active. *)
C16_ClearButtonHiddenIffNoFilter ==
    (pc = "shown" /\ (selectedSection # Null => selectedCategory # Null)) =>
        (dom.clearHidden <=> NoFilterActive)

(* rendered with a search text of blanks only and nothing selected: hidden *)
C16_Witness ==
    /\ pc = "shown"
    /\ searchQuery = <<" ">>
    /\ NoFilterActive
    /\ dom.clearHidden
    /\ bookmarks # <<>>

(* the tag has a button in the tag list *)
TagInList(tag) == \E i \in 1..Len(dom.tags) : dom.tags[i].tag = tag

(* the number of filtered bookmarks that carry the tag *)
FilteredWith(tag) ==
    Cardinality({i \in 1..Len(Filtered) : tag \in Range(Filtered[i].tags)})

(* C17: after a render every selected tag has a button in the tag list, and a
   tag that is not selected has one exactly when some bookmark carries it and
   either no tag, category or search filter is active or some filtered bookmark
   carries it. *)
C17_TagListShown ==
    pc = "ready" =>
        /\ \A tag \in selectedTags : TagInList(tag)
        /\ \A tag \in ({TagT, TagU, TagAT, TagA} \cup GetAllTags(bookmarks)) \ selectedTags :
                TagInList(tag) <=>
                    /\ tag \in GetAllTags(bookmarks)
                    /\ \/ (selectedTags = {} /\ selectedCategory = Null
                                /\ IsBlank(searchQuery))
                       \/ FilteredWith(tag) >= 1

(* C18: once the bookmarks are loaded, the query parameters of the page URL
   are exactly those updateURLParams writes for the current filter state: q with
   the trimmed search text when not blank, category and section when selected,
   one tag parameter per selected tag. *)
C18_URLMatchesState == pc = "ready" => url = UpdateURLParams(Cur)

(* C19: while the URL is the one updateURLParams wrote for the current filter
   state, a fresh load of that URL with the same bookmarks filters to the same
   list as the current state does. *)
C19_ReloadShowsSameResults ==
    (pc = "ready" /\ url = UpdateURLParams(Cur)) =>
        GetFilteredBookmarks(bookmarks, ApplyFiltersFromURL(url)) = Filtered

(* the filtered list after toggleTag(tag) in the current state *)
FilteredAfterToggle(tag) == GetFilteredBookmarks(bookmarks, ToggleTagState(Cur, tag))

(* C20: after a render, toggling on a tag whose button is shown and which is
   not selected gives a filtered list of at least one bookmark, as many as the
   count shown on the button (no bookmark carries a tag twice). *)
C20_TagClickNeverEmpty ==
    pc = "shown" =>
        \A i \in 1..Len(dom.tags) :
            dom.tags[i].tag \notin selectedTags =>
                /\ Len(FilteredAfterToggle(dom.tags[i].tag)) >= 1
                /\ Len(FilteredAfterToggle(dom.tags[i].tag)) = dom.tags[i].count

(* under a selected tag and a search text, a second tag is offered with count 1
   while the list holds a bookmark that would not pass *)
C20_Witness ==
    /\ pc = "shown"
    /\ selectedTags = {TagT}
    /\ searchQuery # <<>>
    /\ Len(bookmarks) = 2
    /\ \E i \in 1..Len(dom.tags) :
            /\ dom.tags[i].tag = TagU
            /\ dom.tags[i].count = 1
            /\ FilteredAfterToggle(TagU) = <<B2>>

---------------------------------------------------------------------------
(* The tag-filter variant of src/unnamed/part_000 (lines 258-658): its state
   is bookmarks, selectedTags and searchQuery; it has no category or section *)

(* lines 326-332 *)
VariantMatchesSearch(b, query) ==
    LET q == ToLowerCase(query)
    IN  \/ Includes(ToLowerCase(b.title), q)
        \/ Includes(ToLowerCase(b.url), q)
        \/ (Truthy(b.description) /\ Includes(ToLowerCase(b.description), q))
        \/ \E i \in 1..Len(b.tags) : Includes(ToLowerCase(b.tags[i]), q)

(* lines 337-339 *)
VariantHasEveryTag(b, tags) ==
    \A tag \in tags : \E i \in 1..Len(b.tags) : b.tags[i] = tag

(* getFilteredBookmarks of the variant: the search filter first, then the tags *)
VariantGetFilteredBookmarks(bm, tags, query) ==
    LET bySearch ==
            IF Truthy(Trim(query))
            THEN SelectSeq(bm, LAMBDA b : VariantMatchesSearch(b, query))
            ELSE bm
    IN  IF tags # {}
        THEN SelectSeq(bySearch, LAMBDA b : VariantHasEveryTag(b, tags))
        ELSE bySearch

(* toggleTag of the variant: the tag set it leaves *)
VariantToggleTag(tags, tag) ==
    IF tag \in tags THEN tags \ {tag} ELSE tags \cup {tag}

(* the debounced callback of the variant: searchQuery = e.target.value *)
VariantSearchUpdate(value) == value

(* A page of src/bookmarks/app.js loaded from a URL with a search text and
   tags but no category, then used with tag clicks and the search box only *)
VariantInit ==
    /\ pc = "ready"
    /\ bookmarks \in PureLists
    /\ selectedTags \in SUBSET {TagT, TagU}
    /\ searchQuery \in SearchTexts
    /\ selectedCategory = Null
    /\ selectedSection = Null
    /\ inputValue = searchQuery
    /\ url = (IF Truthy(searchQuery) THEN <<Param("q", searchQuery)>> ELSE <<>>)
                \o TagParams(selectedTags)
    /\ dom = Render(bookmarks, Cur, BlankPage)
    /\ listeners = 1
    /\ pending = FALSE
    /\ elapsed = 0
    /\ helpVisible = FALSE
    /\ focus = "other"
    /\ event = NoEvent
    /\ errors = 0

VariantNext ==
    \/ ClickTag
    \/ ClickSearchBox
    \/ SearchInput
    \/ Advance
    \/ DebounceFire
    \/ Handled

VariantSpec == VariantInit /\ [][VariantNext]_vars

(* the two variants hold the same tags and search text, and filter alike *)
VariantsAgree ==
    Filtered = VariantGetFilteredBookmarks(bookmarks, selectedTags, searchQuery)

(* a tag click and a debounced search update leave in app.js the tags and the
   search text the variant's handlers leave, and the results agree again *)
VariantSteps ==
    /\ selectedTags' # selectedTags =>
            \E i \in 1..Len(dom.tags) :
                selectedTags' = VariantToggleTag(selectedTags, dom.tags[i].tag)
    /\ (event.key = "none" /\ event'.key = "timer") =>
            searchQuery' = VariantSearchUpdate(inputValue)
    /\ UNCHANGED <<selectedCategory, selectedSection, bookmarks>>
    /\ VariantsAgree'

(* C21: with no category and no section selected, getFilteredBookmarks of
   app.js and of the tag-filter variant return the same list in the same order
   for the same bookmarks, tags and search text, and they still do after every
   tag toggle and every debounced search update applied to both. *)
C21_VariantsAgree ==
    /\ [](\A tag \in GetAllTags(bookmarks) \cup {TagT, TagU} :
            /\ VariantToggleTag(selectedTags, tag) = ToggleTagState(Cur, tag).selectedTags
            /\ GetFilteredBookmarks(bookmarks, ToggleTagState(Cur, tag))
                  = VariantGetFilteredBookmarks(bookmarks,
                        VariantToggleTag(selectedTags, tag), searchQuery))
    /\ [](\A text \in PureQueries :
            GetFilteredBookmarks(bookmarks, [Cur EXCEPT !.searchQuery = text])
              = VariantGetFilteredBookmarks(bookmarks, selectedTags,
                    VariantSearchUpdate(text)))
    /\ []VariantsAgree
    /\ [][VariantSteps]_vars

(* a tag was toggled and a padded search text applied by the debounced update;
   search and tag filter each drop a bookmark the other keeps *)
C21_Witness ==
    /\ event.key = "timer"
    /\ searchQuery = <<" ", "a">>
    /\ selectedTags = {TagU}
    /\ url = UpdateURLParams(Cur)
    /\ Filtered = <<B3>>
    /\ Len(bookmarks) = 2

====
